---- MODULE Spec2Model ----
(***************************************************************************)
(* One-dimensional intervals over the reals with open, closed and unbound  *)
(* endpoints (src/src/interval.rs, src/src/interval/left.rs).              *)
(*                                                                         *)
(* An f64 payload is modelled by an integer of Vals = -1..MaxVal, or by    *)
(* NaN, which compares false with everything.                              *)
(* A Bound is a record [kind, k]; Left(b) and Right(b) are the same record *)
(* held in the lo, respectively the hi, field of an Interval.              *)
(***************************************************************************)
EXTENDS Integers, Sequences, FiniteSets, TLC

MaxVal == 2

Vals == (0 - 1)..MaxVal

\* the f64 payload that is not a number; it lies outside Vals
NaN == MaxVal + 5

\* every f64 payload of the model
Floats == Vals \cup {NaN}

\* f64 comparisons: every comparison with NaN is false
f64_lt(x, y) == x # NaN /\ y # NaN /\ x < y

f64_le(x, y) == x # NaN /\ y # NaN /\ x <= y

f64_gt(x, y) == x # NaN /\ y # NaN /\ x > y

f64_ge(x, y) == x # NaN /\ y # NaN /\ x >= y

f64_eq(x, y) == x # NaN /\ y # NaN /\ x = y

-----------------------------------------------------------------------------
(* Bound, Left, Right                                                       *)

Closed(k) == [kind |-> "Closed", k |-> k]

Open(k) == [kind |-> "Open", k |-> k]

Unbound == [kind |-> "Unbound", k |-> 0]

Bounds == {Closed(k) : k \in Vals} \cup {Open(k) : k \in Vals} \cup {Unbound}

\* the bounds a caller can write, a NaN payload included
AnyBounds == {Closed(k) : k \in Floats} \cup {Open(k) : k \in Floats} \cup {Unbound}

\* derived equality of the Bound enum: same variant, same payload
Bound_eq(b1, b2) == b1.kind = b2.kind /\ (b1.kind = "Unbound" \/ f64_eq(b1.k, b2.k))

\* impl PartialEq for Left
Left_eq(l1, l2) == Bound_eq(l1, l2)

\* impl PartialEq for Right
Right_eq(r1, r2) == Bound_eq(r1, r2)

\* impl PartialEq<Right> for Left
Left_eq_Right(l, r) ==
  IF l.kind = "Closed" /\ r.kind = "Closed" THEN f64_eq(l.k, r.k) ELSE FALSE

\* Left < Left with < in the Closed, Open arm as in the three other arms
Left_lt_all_strict(l1, l2) ==
  CASE l1.kind = "Closed" /\ l2.kind = "Closed" -> f64_lt(l1.k, l2.k)
    [] l1.kind = "Open" /\ l2.kind = "Open" -> f64_lt(l1.k, l2.k)
    [] l1.kind = "Open" /\ l2.kind = "Closed" -> f64_lt(l1.k, l2.k)
    [] l1.kind = "Closed" /\ l2.kind = "Open" -> f64_lt(l1.k, l2.k)
    [] l2.kind = "Unbound" -> FALSE
    [] OTHER -> TRUE

\* impl PartialOrd for Left :: lt
Left_lt(l1, l2) ==
  CASE l1.kind = "Closed" /\ l2.kind = "Closed" -> f64_lt(l1.k, l2.k)
    [] l1.kind = "Open" /\ l2.kind = "Open" -> f64_lt(l1.k, l2.k)
    [] l1.kind = "Open" /\ l2.kind = "Closed" -> f64_lt(l1.k, l2.k)
    [] l1.kind = "Closed" /\ l2.kind = "Open" -> f64_le(l1.k, l2.k)
    [] l2.kind = "Unbound" -> FALSE
    [] OTHER -> TRUE

\* impl PartialOrd for Left :: gt
Left_gt(l1, l2) ==
  CASE l1.kind = "Closed" /\ l2.kind = "Closed" -> f64_gt(l1.k, l2.k)
    [] l1.kind = "Open" /\ l2.kind = "Open" -> f64_gt(l1.k, l2.k)
    [] l1.kind = "Open" /\ l2.kind = "Closed" -> f64_ge(l1.k, l2.k)
    [] l1.kind = "Closed" /\ l2.kind = "Open" -> f64_gt(l1.k, l2.k)
    [] l1.kind = "Unbound" -> FALSE
    [] OTHER -> TRUE

\* impl PartialOrd for Left :: partial_cmp
Left_partial_cmp(l1, l2) ==
  IF Left_gt(l1, l2) THEN "Greater"
  ELSE IF Left_lt(l1, l2) THEN "Less"
  ELSE "Equal"

\* Left::min with the comparison reversed
Left_min_reversed(l1, l2) == IF Left_gt(l1, l2) THEN l1 ELSE l2

\* Left::min
Left_min(l1, l2) == IF Left_lt(l1, l2) THEN l1 ELSE l2

\* Left::max
Left_max(l1, l2) == IF Left_gt(l1, l2) THEN l1 ELSE l2

\* Left::closure that forgets the Open arm
Left_closure_closed_only(l) == IF l.kind = "Closed" THEN Closed(l.k) ELSE l

\* Left::closure
Left_closure(l) == IF l.kind \in {"Closed", "Open"} THEN Closed(l.k) ELSE l

\* Left > Right with >= in the Closed, Closed arm as in the three other arms
Left_gt_Right_all_ge(l, r) ==
  CASE l.kind = "Open" /\ r.kind = "Open" -> f64_ge(l.k, r.k)
    [] l.kind = "Open" /\ r.kind = "Closed" -> f64_ge(l.k, r.k)
    [] l.kind = "Closed" /\ r.kind = "Open" -> f64_ge(l.k, r.k)
    [] l.kind = "Closed" /\ r.kind = "Closed" -> f64_ge(l.k, r.k)
    [] OTHER -> FALSE

\* impl PartialOrd<Right> for Left :: gt
Left_gt_Right(l, r) ==
  CASE l.kind = "Open" /\ r.kind = "Open" -> f64_ge(l.k, r.k)
    [] l.kind = "Open" /\ r.kind = "Closed" -> f64_ge(l.k, r.k)
    [] l.kind = "Closed" /\ r.kind = "Open" -> f64_ge(l.k, r.k)
    [] l.kind = "Closed" /\ r.kind = "Closed" -> f64_gt(l.k, r.k)
    [] OTHER -> FALSE

\* Left < Right whose last arm, an unbound upper bound, answers false
Left_lt_Right_unbound_upper_false(l, r) ==
  CASE l.kind = "Open" /\ r.kind = "Open" -> f64_lt(l.k, r.k)
    [] l.kind = "Open" /\ r.kind = "Closed" -> f64_lt(l.k, r.k)
    [] l.kind = "Closed" /\ r.kind = "Open" -> f64_lt(l.k, r.k)
    [] l.kind = "Closed" /\ r.kind = "Closed" -> f64_lt(l.k, r.k)
    [] l.kind = "Unbound" -> TRUE
    [] OTHER -> FALSE

\* impl PartialOrd<Right> for Left :: lt
Left_lt_Right(l, r) ==
  CASE l.kind = "Open" /\ r.kind = "Open" -> f64_lt(l.k, r.k)
    [] l.kind = "Open" /\ r.kind = "Closed" -> f64_lt(l.k, r.k)
    [] l.kind = "Closed" /\ r.kind = "Open" -> f64_lt(l.k, r.k)
    [] l.kind = "Closed" /\ r.kind = "Closed" -> f64_lt(l.k, r.k)
    [] OTHER -> TRUE

\* impl PartialOrd<Right> for Left :: partial_cmp ("Panic" is the failed assert!)
Left_partial_cmp_Right(l, r) ==
  IF Left_gt_Right(l, r) THEN "Greater"
  ELSE IF Left_lt_Right(l, r) THEN "Less"
  ELSE IF Left_eq_Right(l, r) THEN "Equal"
  ELSE "Panic"

\* the provided PartialOrd::le, reached by `b1 <= a2`
Left_le_Right(l, r) == Left_partial_cmp_Right(l, r) \in {"Less", "Equal"}

\* impl PartialOrd<Left> for Right :: lt (the upper bound lies before the lower)
Right_lt_Left(r, l) ==
  CASE r.kind = "Open" /\ l.kind = "Open" -> f64_le(r.k, l.k)
    [] r.kind = "Open" /\ l.kind = "Closed" -> f64_le(r.k, l.k)
    [] r.kind = "Closed" /\ l.kind = "Open" -> f64_le(r.k, l.k)
    [] r.kind = "Closed" /\ l.kind = "Closed" -> f64_lt(r.k, l.k)
    [] OTHER -> FALSE

\* impl PartialOrd<Left> for Right :: gt
Right_gt_Left(r, l) ==
  CASE r.kind = "Unbound" \/ l.kind = "Unbound" -> TRUE
    [] OTHER -> f64_gt(r.k, l.k)

\* impl PartialEq<Left> for Right
Right_eq_Left(r, l) ==
  IF r.kind = "Closed" /\ l.kind = "Closed" THEN f64_eq(r.k, l.k) ELSE FALSE

\* impl PartialOrd<Left> for Right :: partial_cmp
Right_partial_cmp_Left(r, l) ==
  IF Right_gt_Left(r, l) THEN "Greater"
  ELSE IF Right_lt_Left(r, l) THEN "Less"
  ELSE IF Right_eq_Left(r, l) THEN "Equal"
  ELSE "Panic"

\* the provided PartialOrd::ge, reached by `b2 >= a1`
Right_ge_Left(r, l) == Right_partial_cmp_Left(r, l) \in {"Greater", "Equal"}

\* impl PartialOrd for Right :: gt (at equal value Open(k) < Closed(k))
Right_gt(r1, r2) ==
  CASE r1.kind = "Closed" /\ r2.kind = "Closed" -> f64_gt(r1.k, r2.k)
    [] r1.kind = "Open" /\ r2.kind = "Open" -> f64_gt(r1.k, r2.k)
    [] r1.kind = "Open" /\ r2.kind = "Closed" -> f64_gt(r1.k, r2.k)
    [] r1.kind = "Closed" /\ r2.kind = "Open" -> f64_ge(r1.k, r2.k)
    [] r1.kind = "Unbound" -> r2.kind # "Unbound"
    [] OTHER -> FALSE

\* Right::max
Right_max(r1, r2) == IF Right_gt(r1, r2) THEN r1 ELSE r2

\* Right::closure
Right_closure(r) == IF r.kind \in {"Closed", "Open"} THEN Closed(r.k) ELSE r

\* `a1.closure(b2)`: the closure of a lower bound equals that of an upper bound
Left_closure_Right(l, r) == Left_eq_Right(Left_closure(l), Right_closure(r))

\* `a2.closure(b1)`: the closure of an upper bound equals that of a lower bound
Right_closure_Left(r, l) == Right_eq_Left(Right_closure(r), Left_closure(l))

-----------------------------------------------------------------------------
(* Interval                                                                 *)

Interval(l, r) == [lo |-> l, hi |-> r]

EMPTY == Interval(Open(0), Open(0))

INFINITY == Interval(Unbound, Unbound)

\* Interval equality that compares the lower bounds only
Interval_eq_lower_only(i, j) == Left_eq(i.lo, j.lo)

\* impl PartialEq for Interval
Interval_eq(i, j) == Left_eq(i.lo, j.lo) /\ Right_eq(i.hi, j.hi)

\* Interval::new without the test for an inverted range
new_unchecked(b1, b2) ==
  IF b1 = Unbound /\ b2 = Unbound THEN INFINITY
  ELSE Interval(b1, b2)

\* Interval::new testing `b2 <= b1`
new_le(b1, b2) ==
  IF Right_lt_Left(b2, b1) \/ Right_eq_Left(b2, b1) THEN EMPTY
  ELSE IF b1 = Unbound /\ b2 = Unbound THEN INFINITY
  ELSE Interval(b1, b2)

\* Interval::new
new(b1, b2) ==
  IF Right_lt_Left(b2, b1) THEN EMPTY
  ELSE IF b1 = Unbound /\ b2 = Unbound THEN INFINITY
  ELSE Interval(b1, b2)

\* Interval::singleton
singleton(k) == Interval(Closed(k), Closed(k))

\* Interval::is_singleton that does not compare the two values
is_singleton_any_closed(i) ==
  IF i.lo.kind = "Closed" /\ i.hi.kind = "Closed" THEN TRUE ELSE FALSE

\* Interval::is_singleton
is_singleton(i) ==
  IF i.lo.kind = "Closed" /\ i.hi.kind = "Closed" THEN f64_eq(i.lo.k, i.hi.k) ELSE FALSE

\* Interval::is_empty
is_empty(i) == Interval_eq(i, EMPTY)

\* the pattern Interval(Left(Open(k1)), Right(Open(k2))) if k1 == k2
EmptyPattern(i) == i.lo.kind = "Open" /\ i.hi.kind = "Open" /\ f64_eq(i.lo.k, i.hi.k)

\* the pattern Interval(Left(Unbound), Right(Unbound))
InfinityPattern(i) == i.lo.kind = "Unbound" /\ i.hi.kind = "Unbound"

\* the signs U+2205 (empty set) and U+221E (infinity) of the rendering
EmptySign == "(/)"

InfSign == "oo"

\* the format {k:5.2}: two decimals, right-aligned in a width of five
Fmt(k) ==
  IF k = NaN THEN "  NaN"
  ELSE LET s == ToString(k) \o ".00"
       IN IF Len(s) < 5 THEN " " \o s ELSE s

\* impl Display for Left
Left_fmt(l) ==
  CASE l.kind = "Closed" -> "[" \o Fmt(l.k)
    [] l.kind = "Open" -> "]" \o Fmt(l.k)
    [] OTHER -> "]-" \o InfSign

\* impl Display for Right
Right_fmt(r) ==
  CASE r.kind = "Closed" -> Fmt(r.k) \o "]"
    [] r.kind = "Open" -> Fmt(r.k) \o ")"
    [] OTHER -> "+" \o InfSign \o ")"

\* impl Display for Interval
Interval_fmt(i) ==
  IF EmptyPattern(i) THEN EmptySign
  ELSE IF InfinityPattern(i) THEN "(-" \o InfSign \o ",+" \o InfSign \o ")"
  ELSE IF i.lo.kind = "Closed" /\ i.hi.kind = "Closed" /\ f64_eq(i.lo.k, i.hi.k)
    THEN "{" \o Fmt(i.lo.k) \o "}"
  ELSE Left_fmt(i.lo) \o "," \o Right_fmt(i.hi)

\* Interval::overlap testing `b1 < a2`
overlap_strict(x, y) ==
  IF EmptyPattern(y) \/ EmptyPattern(x) THEN FALSE
  ELSE IF InfinityPattern(x) \/ InfinityPattern(y) THEN TRUE
  ELSE Right_ge_Left(y.hi, x.lo) /\ Left_lt_Right(y.lo, x.hi)

\* Interval::overlap
overlap(x, y) ==
  IF EmptyPattern(y) \/ EmptyPattern(x) THEN FALSE
  ELSE IF InfinityPattern(x) \/ InfinityPattern(y) THEN TRUE
  ELSE Right_ge_Left(y.hi, x.lo) /\ Left_le_Right(y.lo, x.hi)

\* Interval::adhere_to
adhere_to(x, y) ==
  IF is_empty(x) \/ is_empty(y) THEN FALSE
  ELSE IF InfinityPattern(x) \/ InfinityPattern(y) THEN FALSE
  ELSE Left_closure_Right(x.lo, y.hi) \/ Right_closure_Left(x.hi, y.lo)

\* Option<Interval>: None is the empty sequence, Some(i) is <<i>>
None == << >>

Some(i) == << i >>

\* Interval::union merging with min and max exchanged
union_min_max_exchanged(x, y) ==
  IF EmptyPattern(y) THEN [fst |-> x, snd |-> None]
  ELSE IF EmptyPattern(x) THEN [fst |-> y, snd |-> None]
  ELSE IF InfinityPattern(x) \/ InfinityPattern(y)
    THEN [fst |-> Interval(Unbound, Unbound), snd |-> None]
  ELSE IF overlap(x, y) \/ adhere_to(x, y)
    THEN [fst |-> Interval(Left_max(x.lo, y.lo), IF Right_gt(x.hi, y.hi) THEN y.hi ELSE x.hi),
          snd |-> None]
  ELSE IF Left_gt_Right(y.lo, x.hi)
    THEN [fst |-> x, snd |-> Some(y)]
  ELSE [fst |-> y, snd |-> Some(x)]

\* Interval::union testing `a1 > b2` to order a disjoint pair
union_misordered(x, y) ==
  IF EmptyPattern(y) THEN [fst |-> x, snd |-> None]
  ELSE IF EmptyPattern(x) THEN [fst |-> y, snd |-> None]
  ELSE IF InfinityPattern(x) \/ InfinityPattern(y)
    THEN [fst |-> Interval(Unbound, Unbound), snd |-> None]
  ELSE IF overlap(x, y) \/ adhere_to(x, y)
    THEN [fst |-> Interval(Left_min(x.lo, y.lo), Right_max(x.hi, y.hi)), snd |-> None]
  ELSE IF Left_gt_Right(x.lo, y.hi)
    THEN [fst |-> x, snd |-> Some(y)]
  ELSE [fst |-> y, snd |-> Some(x)]

\* Interval::union without the second alternative of the empty arm
union_right_empty_only(x, y) ==
  IF EmptyPattern(y) THEN [fst |-> x, snd |-> None]
  ELSE IF InfinityPattern(x) \/ InfinityPattern(y)
    THEN [fst |-> Interval(Unbound, Unbound), snd |-> None]
  ELSE IF overlap(x, y) \/ adhere_to(x, y)
    THEN [fst |-> Interval(Left_min(x.lo, y.lo), Right_max(x.hi, y.hi)), snd |-> None]
  ELSE IF Left_gt_Right(y.lo, x.hi)
    THEN [fst |-> x, snd |-> Some(y)]
  ELSE [fst |-> y, snd |-> Some(x)]

\* Interval::union returning self from the unbounded arm
union_infinity_self(x, y) ==
  IF EmptyPattern(y) THEN [fst |-> x, snd |-> None]
  ELSE IF EmptyPattern(x) THEN [fst |-> y, snd |-> None]
  ELSE IF InfinityPattern(x) \/ InfinityPattern(y)
    THEN [fst |-> x, snd |-> None]
  ELSE IF overlap(x, y) \/ adhere_to(x, y)
    THEN [fst |-> Interval(Left_min(x.lo, y.lo), Right_max(x.hi, y.hi)), snd |-> None]
  ELSE IF Left_gt_Right(y.lo, x.hi)
    THEN [fst |-> x, snd |-> Some(y)]
  ELSE [fst |-> y, snd |-> Some(x)]

\* Interval::union
union(x, y) ==
  IF EmptyPattern(y) THEN [fst |-> x, snd |-> None]
  ELSE IF EmptyPattern(x) THEN [fst |-> y, snd |-> None]
  ELSE IF InfinityPattern(x) \/ InfinityPattern(y)
    THEN [fst |-> Interval(Unbound, Unbound), snd |-> None]
  ELSE IF overlap(x, y) \/ adhere_to(x, y)
    THEN [fst |-> Interval(Left_min(x.lo, y.lo), Right_max(x.hi, y.hi)), snd |-> None]
  ELSE IF Left_gt_Right(y.lo, x.hi)
    THEN [fst |-> x, snd |-> Some(y)]
  ELSE [fst |-> y, snd |-> Some(x)]

-----------------------------------------------------------------------------
(* A caller holding two intervals a and b.  call records the last call made *)
(* on them: its name, its arguments and what it returned.                   *)

VARIABLES a, b, call

vars == << a, b, call >>

\* err is the error condition a call signalled, str the text or the Ordering
\* it produced
NoCall == [op |-> "none", into |-> "a", l |-> Unbound, u |-> Unbound,
           fst |-> EMPTY, snd |-> None, val |-> FALSE, err |-> "none", str |-> ""]

Init ==
  /\ a = EMPTY
  /\ b = INFINITY
  /\ call = NoCall

\* a := Interval::new(l, u)  or  b := Interval::new(l, u)
New ==
  \E l \in Bounds, u \in Bounds, into \in {"a", "b"} :
    /\ a' = IF into = "a" THEN new(l, u) ELSE a
    /\ b' = IF into = "b" THEN new(l, u) ELSE b
    /\ call' = [NoCall EXCEPT !.op = "new", !.into = into, !.l = l, !.u = u]

\* a := Interval::singleton(k)  or  b := Interval::singleton(k)
Singleton ==
  \E k \in Vals, into \in {"a", "b"} :
    /\ a' = IF into = "a" THEN singleton(k) ELSE a
    /\ b' = IF into = "b" THEN singleton(k) ELSE b
    /\ call' = [NoCall EXCEPT !.op = "singleton", !.into = into,
                              !.l = Closed(k), !.u = Closed(k)]

\* a.union(b)
Union ==
  /\ call' = [NoCall EXCEPT !.op = "union", !.fst = union(a, b).fst,
                            !.snd = union(a, b).snd]
  /\ UNCHANGED << a, b >>

\* a.overlap(b)
Overlap ==
  /\ call' = [NoCall EXCEPT !.op = "overlap", !.val = overlap(a, b)]
  /\ UNCHANGED << a, b >>

\* a.adhere_to(b)
AdhereTo ==
  /\ call' = [NoCall EXCEPT !.op = "adhere_to", !.val = adhere_to(a, b)]
  /\ UNCHANGED << a, b >>

\* a.is_singleton()
IsSingleton ==
  /\ call' = [NoCall EXCEPT !.op = "is_singleton", !.val = is_singleton(a)]
  /\ UNCHANGED << a, b >>

\* a.is_empty()
IsEmpty ==
  /\ call' = [NoCall EXCEPT !.op = "is_empty", !.val = is_empty(a)]
  /\ UNCHANGED << a, b >>

\* a == b
Eq ==
  /\ call' = [NoCall EXCEPT !.op = "eq", !.val = Interval_eq(a, b)]
  /\ UNCHANGED << a, b >>

\* format!("{a}")
Display ==
  /\ call' = [NoCall EXCEPT !.op = "display", !.str = Interval_fmt(a)]
  /\ UNCHANGED << a, b >>

\* the lower bound of a compared with the lower bound of b
LeftCmp ==
  /\ call' = [NoCall EXCEPT !.op = "Left_cmp", !.str = Left_partial_cmp(a.lo, b.lo)]
  /\ UNCHANGED << a, b >>

\* the lower bound of a compared with the upper bound of b
LeftCmpRight ==
  /\ call' = [NoCall EXCEPT !.op = "Left_cmp_Right",
                            !.str = Left_partial_cmp_Right(a.lo, b.hi)]
  /\ UNCHANGED << a, b >>

\* the first interval a union returned becomes an operand
FeedFst ==
  /\ call.op = "union"
  /\ \E into \in {"a", "b"} :
       /\ a' = IF into = "a" THEN call.fst ELSE a
       /\ b' = IF into = "b" THEN call.fst ELSE b
       /\ call' = [NoCall EXCEPT !.op = "feed", !.into = into]

\* the second interval a union returned, when there is one, becomes an operand
FeedSnd ==
  /\ call.op = "union"
  /\ call.snd # None
  /\ \E into \in {"a", "b"} :
       /\ a' = IF into = "a" THEN call.snd[1] ELSE a
       /\ b' = IF into = "b" THEN call.snd[1] ELSE b
       /\ call' = [NoCall EXCEPT !.op = "feed", !.into = into]

Next ==
  \/ New
  \/ Singleton
  \/ Union
  \/ Overlap
  \/ AdhereTo
  \/ IsSingleton
  \/ IsEmpty
  \/ Eq
  \/ Display
  \/ LeftCmp
  \/ LeftCmpRight
  \/ FeedFst
  \/ FeedSnd

Spec == Init /\ [][Next]_vars

\* the same constructors called with any f64 payload, NaN included
NewAny ==
  \E l \in AnyBounds, u \in AnyBounds, into \in {"a", "b"} :
    /\ a' = IF into = "a" THEN new(l, u) ELSE a
    /\ b' = IF into = "b" THEN new(l, u) ELSE b
    /\ call' = [NoCall EXCEPT !.op = "new", !.into = into, !.l = l, !.u = u]

SingletonAny ==
  \E k \in Floats, into \in {"a", "b"} :
    /\ a' = IF into = "a" THEN singleton(k) ELSE a
    /\ b' = IF into = "b" THEN singleton(k) ELSE b
    /\ call' = [NoCall EXCEPT !.op = "singleton", !.into = into,
                              !.l = Closed(k), !.u = Closed(k)]

NextAny ==
  \/ NewAny
  \/ SingletonAny

SpecAny == Init /\ [][NextAny]_vars

-----------------------------------------------------------------------------
TypeOK ==
  /\ a.lo \in AnyBounds /\ a.hi \in AnyBounds
  /\ b.lo \in AnyBounds /\ b.hi \in AnyBounds
  /\ call.op \in {"none", "new", "singleton", "union", "overlap", "adhere_to", "feed",
                 "is_singleton", "is_empty", "eq", "display", "Left_cmp",
                 "Left_cmp_Right"}

-----------------------------------------------------------------------------
(* The real line behind the integers: the value k sits at position 2k, and  *)
(* an odd position stands for the reals strictly between two neighbouring   *)
(* values.  A lower bound is the first position it admits, an upper bound   *)
(* the last; Far lies beyond every finite bound.                            *)

Far == 2 * MaxVal + 4

Points == (0 - Far)..Far

LowerRank(l) ==
  CASE l.kind = "Closed" -> 2 * l.k
    [] l.kind = "Open" -> 2 * l.k + 1
    [] OTHER -> 0 - Far

UpperRank(u) ==
  CASE u.kind = "Closed" -> 2 * u.k
    [] u.kind = "Open" -> 2 * u.k - 1
    [] OTHER -> Far

\* the point p belongs to the interval i
Member(p, i) == LowerRank(i.lo) <= p /\ p <= UpperRank(i.hi)

\* cross-side ordering: the upper bound u lies before the lower bound l
UpperBeforeLower(u, l) == UpperRank(u) < LowerRank(l)

\* the interval the last constructor call built
Built == IF call.into = "a" THEN a ELSE b

\* neither the empty set nor the whole line
Bounded(i) == i # EMPTY /\ i # INFINITY

\* one of the three canonical shapes
Canonical(i) ==
  \/ i = EMPTY
  \/ i = INFINITY
  \/ /\ ~InfinityPattern(i)
     /\ ~UpperBeforeLower(i.hi, i.lo)

Finite(e) == e.kind # "Unbound"

-----------------------------------------------------------------------------
\* C1: Interval::new(l, u) returns EMPTY exactly when the upper bound lies
\* before the lower one under the cross-side ordering, INFINITY exactly when
\* both are Unbound, and otherwise the interval whose endpoints are l and u;
\* so is_empty(new(l, u)) holds iff upper < lower.
C1_NewNormalises ==
  call.op = "new" =>
    /\ (Built = EMPTY) <=> UpperBeforeLower(call.u, call.l)
    /\ (Built = INFINITY) <=> (call.l = Unbound /\ call.u = Unbound)
    /\ (Built # EMPTY /\ Built # INFINITY) => Built = Interval(call.l, call.u)
    /\ is_empty(Built) <=> UpperBeforeLower(call.u, call.l)

C1_Witness ==
  /\ call.op = "new"
  /\ call.l = Closed(2) /\ call.u = Open(1)
  /\ is_empty(Built)

\* C2: every interval reachable through new, singleton and union (results
\* fed back as operands) is EMPTY, INFINITY, or a pair whose upper bound is
\* not before its lower bound; only EMPTY matches the Open(k),Open(k)
\* pattern, so is_empty agrees with that pattern.
C2_AlwaysCanonical ==
  /\ Canonical(a) /\ (EmptyPattern(a) <=> is_empty(a))
  /\ Canonical(b) /\ (EmptyPattern(b) <=> is_empty(b))
  /\ call.op = "union" =>
       /\ Canonical(call.fst) /\ (EmptyPattern(call.fst) <=> is_empty(call.fst))
       /\ \A i \in 1..Len(call.snd) :
            Canonical(call.snd[i]) /\ (EmptyPattern(call.snd[i]) <=> is_empty(call.snd[i]))

C2_Witness ==
  /\ call.op = "union"
  /\ a = Interval(Open(0), Open(1)) /\ b = Interval(Closed(1), Unbound)
  /\ call.fst = Interval(Open(0), Unbound) /\ call.snd = None

\* C3: at one value k, new(Closed(k), Closed(k)) is the non-empty singleton
\* and the three other openness combinations are EMPTY; with the lower value
\* above the upper value the result is EMPTY whatever the openness.
C3_TieBreak ==
  (call.op = "new" /\ Finite(call.l) /\ Finite(call.u)) =>
    /\ (call.l.k = call.u.k /\ call.l.kind = "Closed" /\ call.u.kind = "Closed")
         => (Built = Interval(Closed(call.l.k), Closed(call.l.k)) /\ ~is_empty(Built))
    /\ (call.l.k = call.u.k /\ ~(call.l.kind = "Closed" /\ call.u.kind = "Closed"))
         => Built = EMPTY
    /\ (call.l.k > call.u.k) => Built = EMPTY

C3_Witness ==
  /\ call.op = "new"
  /\ call.l = Closed(1) /\ call.u = Closed(1)
  /\ Built = Interval(Closed(1), Closed(1))

\* C4: when two bounded intervals overlap or adhere, union returns one
\* interval: its lower bound is the lower-side minimum of the two lower
\* bounds, its upper bound the upper-side maximum of the two upper bounds.
C4_MergeMinMax ==
  (call.op = "union" /\ Bounded(a) /\ Bounded(b) /\ (overlap(a, b) \/ adhere_to(a, b))) =>
    /\ call.snd = None
    /\ call.fst.lo \in {a.lo, b.lo}
    /\ call.fst.hi \in {a.hi, b.hi}
    /\ LowerRank(call.fst.lo) <= LowerRank(a.lo) /\ LowerRank(call.fst.lo) <= LowerRank(b.lo)
    /\ UpperRank(call.fst.hi) >= UpperRank(a.hi) /\ UpperRank(call.fst.hi) >= UpperRank(b.hi)

C4_Witness ==
  /\ call.op = "union"
  /\ a = Interval(Closed(0), Closed(2)) /\ b = Interval(Open(0 - 1), Open(1))
  /\ call.fst = Interval(Open(0 - 1), Closed(2)) /\ call.snd = None

\* the upper bound of x and the lower bound of y sit at one value, and x and
\* y do not overlap
Touch(x, y) ==
  /\ Finite(x.hi) /\ Finite(y.lo) /\ x.hi.k = y.lo.k
  /\ ~overlap(x, y)

\* what union returned
Returned == [fst |-> call.fst, snd |-> call.snd]

ClosedForm(e) == IF e.kind = "Open" THEN Closed(e.k) ELSE e

\* a lower and an upper endpoint have the same closed form: one finite value
SameClosure(l, u) == Finite(l) /\ Finite(u) /\ ClosedForm(l) = ClosedForm(u)

C7_DisjointLeftToRight ==
  (call.op = "union" /\ Bounded(a) /\ Bounded(b) /\ ~overlap(a, b) /\ ~adhere_to(a, b)) =>
    /\ call.snd # None
    /\ union(b, a) = Returned
    /\ {call.fst, call.snd[1]} = {a, b}
    /\ UpperBeforeLower(call.fst.hi, call.snd[1].lo)

C7_Witness ==
  /\ call.op = "union"
  /\ a = Interval(Open(1), Open(2)) /\ b = Interval(Closed(0 - 1), Closed(0))
  /\ call.fst = b /\ call.snd = Some(a)

\* C8: union(EMPTY, x) and union(x, EMPTY) both return (x, None), x unchanged,
\* for every reachable x, EMPTY and INFINITY included.
C8_EmptyAbsorbed ==
  call.op = "union" =>
    /\ a = EMPTY => Returned = [fst |-> b, snd |-> None]
    /\ b = EMPTY => Returned = [fst |-> a, snd |-> None]

C8_Witness ==
  /\ call.op = "union"
  /\ a = EMPTY /\ b = Interval(Closed(0), Open(1))
  /\ call.fst = b /\ call.snd = None

\* C9: union(INFINITY, x) and union(x, INFINITY) both return (INFINITY, None)
\* for every reachable x, EMPTY included.
C9_InfinityAbsorbs ==
  (call.op = "union" /\ (a = INFINITY \/ b = INFINITY)) =>
    Returned = [fst |-> INFINITY, snd |-> None]

C9_Witness ==
  /\ call.op = "union"
  /\ a = Interval(Unbound, Open(1)) /\ b = INFINITY
  /\ call.fst = INFINITY /\ call.snd = None

\* C10: overlap(a, b) is true iff a and b share a real point: EMPTY overlaps
\* nothing, INFINITY overlaps every non-empty interval, and two bounded
\* intervals overlap iff each upper bound is not before the other's lower
\* bound under the cross-side ordering.
C10_OverlapIsSharedPoint ==
  call.op = "overlap" =>
    /\ call.val <=> (\E p \in Points : Member(p, a) /\ Member(p, b))
    /\ (a = EMPTY \/ b = EMPTY) => ~call.val
    /\ (a # EMPTY /\ b # EMPTY /\ (a = INFINITY \/ b = INFINITY)) => call.val
    /\ (Bounded(a) /\ Bounded(b)) =>
         (call.val <=> (~UpperBeforeLower(b.hi, a.lo) /\ ~UpperBeforeLower(a.hi, b.lo)))

C10_Witness ==
  /\ call.op = "overlap"
  /\ a = Interval(Closed(0), Closed(1)) /\ b = Interval(Closed(1), Open(2))
  /\ call.val

\* C11: overlap(a, b) = overlap(b, a) for all reachable intervals: the
\* Right >= Left test of one operand order and the Left <= Right test of the
\* other agree.
C11_OverlapSymmetric ==
  call.op = "overlap" =>
    /\ call.val <=> overlap(b, a)
    /\ (Bounded(a) /\ Bounded(b)) =>
         /\ Right_ge_Left(b.hi, a.lo) <=> Left_le_Right(a.lo, b.hi)
         /\ Right_ge_Left(a.hi, b.lo) <=> Left_le_Right(b.lo, a.hi)

C11_Witness ==
  /\ call.op = "overlap"
  /\ a = Interval(Closed(0), Closed(1)) /\ b = Interval(Closed(1), Closed(2))
  /\ call.val /\ overlap(b, a)

\* C12: singleton(k) equals new(Closed(k), Closed(k)) and is a singleton; and
\* is_singleton(i) is true iff both endpoints of i are Closed at one value,
\* so it is false for EMPTY and INFINITY.
C12_SingletonRoundTrip ==
  /\ call.op = "singleton" =>
       /\ Interval_eq(Built, new(call.l, call.u))
       /\ Built = Interval(call.l, call.u)
       /\ is_singleton(Built)
  /\ call.op = "is_singleton" =>
       /\ call.val <=> (a.lo.kind = "Closed" /\ a.hi.kind = "Closed" /\ a.lo.k = a.hi.k)
       /\ (a = EMPTY \/ a = INFINITY) => ~call.val

C12_Witness ==
  /\ call.op = "is_singleton"
  /\ a = Interval(Closed(1), Closed(1))
  /\ call.val

\* the seven shapes [0,1], [0,1), (0,1), (0,1], (-inf,1], [1,+inf), (-inf,+inf)
SevenShapes ==
  << new(Closed(0), Closed(1)), new(Closed(0), Open(1)), new(Open(0), Open(1)),
     new(Open(0), Closed(1)), new(Unbound, Closed(1)), new(Closed(1), Unbound),
     new(Unbound, Unbound) >>

\* every interval new can build
AllBuilt == {new(l, u) : l \in Bounds, u \in Bounds}

\* C13: interval equality is reflexive, symmetric and transitive, and holds
\* iff the lower endpoints and the upper endpoints agree in value and
\* openness; the seven shapes are each equal to themselves and pairwise
\* distinct.
C13_EqualityStructural ==
  call.op = "eq" =>
    /\ call.val <=> (a.lo = b.lo /\ a.hi = b.hi)
    /\ Interval_eq(a, a) /\ Interval_eq(b, b)
    /\ call.val <=> Interval_eq(b, a)
    /\ \A c \in AllBuilt : (call.val /\ Interval_eq(b, c)) => Interval_eq(a, c)
    /\ \A i, j \in 1..7 : Interval_eq(SevenShapes[i], SevenShapes[j]) <=> (i = j)

C13_Witness ==
  /\ call.op = "eq"
  /\ a = Interval(Closed(0), Open(1)) /\ b = Interval(Closed(0), Closed(1))
  /\ ~call.val

\* C14: when an endpoint value given to Interval::new, or the value given to
\* Interval::singleton, is NaN, the call signals InvalidEndpointValue
\* instead of returning an interval.
C14_NaNRejected ==
  (call.op \in {"new", "singleton"} /\ (call.l.k = NaN \/ call.u.k = NaN)) =>
    call.err = "InvalidEndpointValue"

\* the rendering of a lower bound with "(" for an open or unbound one
LowerText(l) ==
  CASE l.kind = "Closed" -> "[" \o Fmt(l.k)
    [] l.kind = "Open" -> "(" \o Fmt(l.k)
    [] OTHER -> "(-" \o InfSign

\* C15: EMPTY renders as the empty-set sign, INFINITY as "(-oo,+oo)", a
\* singleton as "{k}", and any other interval as <lower>,<upper> with "[" for
\* a Closed lower bound, "(" for an Open one and "(-oo" for an Unbound one;
\* the special cases are rendered distinctly.
C15_Rendering ==
  call.op = "display" =>
    /\ a = EMPTY => call.str = EmptySign
    /\ a = INFINITY => call.str = "(-" \o InfSign \o ",+" \o InfSign \o ")"
    /\ (Bounded(a) /\ is_singleton(a)) => call.str = "{" \o Fmt(a.lo.k) \o "}"
    /\ (Bounded(a) /\ ~is_singleton(a)) =>
         call.str = LowerText(a.lo) \o "," \o Right_fmt(a.hi)
    /\ (call.str = EmptySign) <=> (a = EMPTY)
    /\ (call.str = "(-" \o InfSign \o ",+" \o InfSign \o ")") <=> (a = INFINITY)

\* the points of what union returned
InReturned(p) ==
  \/ Member(p, call.fst)
  \/ \E i \in 1..Len(call.snd) : Member(p, call.snd[i])

CountTrue(bs) == Cardinality({i \in 1..Len(bs) : bs[i]})

\* C17: for two lower bounds x, y exactly one of x < y, x > y, x == y holds
\* and x < y iff y > x; unequal values order by value whatever the openness,
\* Closed(k) < Open(k), Unbound is below every finite bound and neither below
\* nor above itself; min and max are commutative and return an argument.
C17_LeftTotalOrder ==
  call.op = "Left_cmp" =>
    LET x == a.lo
        y == b.lo
    IN /\ CountTrue(<< Left_lt(x, y), Left_gt(x, y), Left_eq(x, y) >>) = 1
       /\ Left_lt(x, y) <=> Left_gt(y, x)
       /\ (call.str = "Less") <=> Left_lt(x, y)
       /\ (call.str = "Greater") <=> Left_gt(x, y)
       /\ (call.str = "Equal") <=> Left_eq(x, y)
       /\ (Finite(x) /\ Finite(y) /\ x.k # y.k) => (Left_lt(x, y) <=> x.k < y.k)
       /\ (Finite(x) /\ Finite(y) /\ x.k = y.k /\ x.kind = "Closed" /\ y.kind = "Open")
            => Left_lt(x, y)
       /\ (~Finite(x) /\ Finite(y)) => Left_lt(x, y)
       /\ (~Finite(x) /\ ~Finite(y)) => (~Left_lt(x, y) /\ ~Left_gt(x, y))
       /\ Left_min(x, y) = Left_min(y, x) /\ Left_min(x, y) \in {x, y}
       /\ Left_max(x, y) = Left_max(y, x) /\ Left_max(x, y) \in {x, y}

C17_Witness ==
  /\ call.op = "Left_cmp"
  /\ a.lo = Closed(1) /\ b.lo = Open(1)
  /\ call.str = "Less"

\* C18: for a lower bound l and an upper bound u exactly one of l < u, l > u,
\* l == u holds, so the assertion in partial_cmp never fails, also when it
\* is reached through `b1 <= a2` in overlap; l < u when either is Unbound or
\* l's value is below u's, l == u only for two Closed bounds at one value,
\* and l > u otherwise.
C18_CrossSideExhaustive ==
  /\ call.op = "Left_cmp_Right" =>
       LET l == a.lo
           u == b.hi
           bothClosed == l.kind = "Closed" /\ u.kind = "Closed"
       IN /\ CountTrue(<< Left_lt_Right(l, u), Left_gt_Right(l, u), Left_eq_Right(l, u) >>) = 1
          /\ call.str # "Panic"
          /\ (call.str = "Less") <=> Left_lt_Right(l, u)
          /\ (call.str = "Greater") <=> Left_gt_Right(l, u)
          /\ (~Finite(l) \/ ~Finite(u)) => Left_lt_Right(l, u)
          /\ (Finite(l) /\ Finite(u) /\ l.k < u.k) => Left_lt_Right(l, u)
          /\ Left_eq_Right(l, u) <=> (bothClosed /\ l.k = u.k)
          /\ (Finite(l) /\ Finite(u) /\ l.k = u.k /\ ~bothClosed) => Left_gt_Right(l, u)
          /\ (Finite(l) /\ Finite(u) /\ l.k > u.k) => Left_gt_Right(l, u)
  /\ (call.op = "overlap" /\ Bounded(a) /\ Bounded(b)) =>
       Left_partial_cmp_Right(b.lo, a.hi) # "Panic"

C18_Witness ==
  /\ call.op = "Left_cmp_Right"
  /\ a.lo = Closed(1) /\ b.hi = Closed(1)
  /\ call.str = "Equal"


====
